---- MODULE Spec2Model ----
(***************************************************************************)
(* db.js -- VKM Associates persistent storage (IndexedDB + localStorage).  *)
(*                                                                         *)
(* The module models window.VKM: four object stores (products, media,      *)
(* settings, users), the module-level connection handle `db`, the          *)
(* localStorage item vkm_owner_logged_in, and the asynchronous calls in    *)
(* flight.  An async function is cut at its awaits: the Call action is the *)
(* synchronous part up to the first await, and every later action is the   *)
(* engine completing the awaited request followed by the continuation up   *)
(* to the next await or the return.                                        *)
(***************************************************************************)
EXTENDS Integers, Sequences, FiniteSets, TLC

(* ------------------------------ bounds --------------------------------- *)
\* number of async calls that may be in flight at once
MaxSlots == 2
\* largest value of the clock Date.now()
MaxTime == 1
\* number of public calls issued in one behaviour
MaxCalls == 4

(* --------------------------- value encodings --------------------------- *)
\* JS values that a setting may hold: null, a string, or an object
Null == [type |-> "null"]
Str(s) == [type |-> "string", str |-> s]
Obj(r) == [type |-> "object", obj |-> r]
\* JS truthiness of such a value (the test behind `||` and `!`)
Truthy(v) == CASE v.type = "null" -> FALSE
               [] v.type = "string" -> v.str /= ""
               [] OTHER -> TRUE
\* the absent property of an object, for string-valued properties
Undefined == "undefined"
\* null in an id-valued property (imageMediaId: p.imageMediaId || null)
NullId == 0
\* keys are encoded as integers in IndexedDB key order: caller-chosen ids
\* (1, 2), then the strings of crypto.randomUUID(), then 'p_' + Date.now()
UUIDBase == 100
FallbackBase == 200

DB_NAME == "vkmDB"
DB_VERSION == 1
SESSION_KEY == "vkm_owner_logged_in"

Slots == 1..MaxSlots
\* what a reading of Date.now() may return after the value t: the clock does
\* not run backwards, and between two readings it stands still or advances
Readings(t) == {u \in {t, t + 1} : u <= MaxTime}
StoreNames == {"products", "media", "settings", "users"}

(* ------------------------------- state --------------------------------- *)
VARIABLES
    dbVersion,      \* version of the persisted database vkmDB (0: not created)
    objectStoreNames, \* names of the object stores of the persisted database
    products,       \* object store products: id -> record
    media,          \* object store media: id -> record
    settings,       \* object store settings: key -> row {key, value}
    users,          \* object store users: username -> record
    localStorage,   \* localStorage: key -> string (only SESSION_KEY is used)
    db,             \* the module-level handle: "undefined" or "open"
    hasRandomUUID,  \* whether crypto.randomUUID exists in this browser
    now,            \* the value Date.now() returned last
    uuids,          \* number of ids crypto.randomUUID() has handed out
    txQueue,        \* store name -> the slots with a live transaction on it, oldest first
    calls,          \* slot -> the async call running in it
    lastReturn,     \* the most recent settlement of a public call in this page
    initDone,       \* whether an init() of this page has returned true
    preLogout,      \* the slots whose loginOwner was called before a logoutOwner that has returned
    nCalls          \* number of public calls issued so far

stores == <<dbVersion, objectStoreNames, products, media, settings, users>>
vars == <<dbVersion, objectStoreNames, products, media, settings, users,
          localStorage, db, hasRandomUUID, now, uuids, txQueue, calls,
          lastReturn, initDone, preLogout, nCalls>>

Idle == [op |-> "idle", pc |-> "idle", arg |-> <<>>, loc |-> <<>>]
NoReturn == [op |-> "none", arg |-> <<>>, status |-> "none", value |-> <<>>, nth |-> 0]

\* nth is 2 when the settlement before this one was of the same call (the
\* same operation with the same argument), and 1 otherwise; a call that
\* threw before it reached the store is not counted (nth 0)
Nth(op, arg) == IF lastReturn.op = op /\ lastReturn.nth > 0 /\ lastReturn.arg = arg THEN 2 ELSE 1

\* the settlement of a call: resolved with a value, or rejected with an error
Resolved(op, arg, value) == [op |-> op, arg |-> arg, status |-> "resolved", value |-> value, nth |-> Nth(op, arg)]
Rejected(op, arg, error) == [op |-> op, arg |-> arg, status |-> "rejected", value |-> error, nth |-> Nth(op, arg)]

(* ------------------------- store primitives ---------------------------- *)
\* IDBObjectStore.put on a store with a keyPath: insert or replace by key
Put(store, key, rec) == [k \in DOMAIN store \cup {key} |-> IF k = key THEN rec ELSE store[k]]
\* faulty variant: the whole store is cleared
DeleteEverything(store, key) == <<>>

\* IDBObjectStore.delete: remove the key if present
Delete(store, key) == [k \in DOMAIN store \ {key} |-> store[k]]
\* IDBObjectStore.get: the record, or undefined
Has(store, key) == key \in DOMAIN store

Init ==
    /\ dbVersion = 0
    /\ objectStoreNames = {}
    /\ products = <<>>
    /\ media = <<>>
    /\ settings = <<>>
    /\ users = <<>>
    /\ localStorage = <<>>
    /\ db = "undefined"
    /\ hasRandomUUID \in BOOLEAN
    /\ now = 0
    /\ uuids = 0
    /\ txQueue = [n \in StoreNames |-> <<>>]
    /\ calls = [s \in Slots |-> Idle]
    /\ lastReturn = NoReturn
    /\ initDone = FALSE
    /\ preLogout = {}
    /\ nCalls = 0

(* --------------------------- call bookkeeping -------------------------- *)
\* a public call may be issued: the budget allows it and slot s is the
\* lowest idle one
CanCall(s) ==
    /\ nCalls < MaxCalls
    /\ calls[s].op = "idle"
    /\ \A r \in Slots : r < s => calls[r].op /= "idle"

Start(s, op, pc, arg, loc) == [calls EXCEPT ![s] = [op |-> op, pc |-> pc, arg |-> arg, loc |-> loc]]
Goto(s, pc, loc) == [calls EXCEPT ![s].pc = pc, ![s].loc = loc]
Finish(s) == [calls EXCEPT ![s] = Idle]
At(s, pc) == calls[s].pc = pc

(* ------------------------------- tx ------------------------------------ *)
\* tx(storeName, mode): db.transaction(...) creates a transaction; the engine
\* runs the transactions on one store in the order they were created
Tx(q, name, s) == [q EXCEPT ![name] = Append(@, s)]
\* faulty variant: requests are served in any order, whatever transactions
\* are live on the store
RunsUnordered(name, s) == txQueue[name] /= <<>>

\* the transaction of slot s is the oldest live one on the store
Runs(name, s) == txQueue[name] /= <<>> /\ Head(txQueue[name]) = s
\* the transaction has no request left and commits
Commit(q, name) == [q EXCEPT ![name] = Tail(@)]

(* ------------------------------ openDB --------------------------------- *)
\* the seeded owner account (users.put in onupgradeneeded)
SeedOwner(t) == [username |-> "VKM2009", password |-> "VKM1998", role |-> "owner", createdAt |-> t]

\* onupgradeneeded fires when the persisted version is below DB_VERSION
UpgradeNeeded == dbVersion < DB_VERSION

\* if (!db.objectStoreNames.contains(name)) db.createObjectStore(name, ...)
CreateIfMissing(name, store) == IF name \in objectStoreNames THEN store ELSE <<>>

\* faulty variant: the users store is created but the owner is not seeded
SeededUsersNoOwner(t) == IF "users" \in objectStoreNames THEN users ELSE <<>>

\* faulty variant: a second account is seeded beside the owner
SeededUsersTwo(t) == IF "users" \in objectStoreNames THEN users
                     ELSE Put(Put(<<>>, "VKM2009", SeedOwner(t)), "admin", SeedOwner(t))

\* the users store after onupgradeneeded: created and seeded only if missing
SeededUsers(t) == IF "users" \in objectStoreNames THEN users ELSE Put(<<>>, "VKM2009", SeedOwner(t))

\* req.onupgradeneeded followed by the commit of the versionchange transaction
Upgrade(t) ==
    /\ dbVersion' = DB_VERSION
    /\ objectStoreNames' = objectStoreNames \cup StoreNames
    /\ products' = CreateIfMissing("products", products)
    /\ media' = CreateIfMissing("media", media)
    /\ settings' = CreateIfMissing("settings", settings)
    /\ users' = SeededUsers(t)

(* ------------------------- settings / business ------------------------- *)
\* the default BusinessInfo init() seeds (coords in thousandths of a degree)
DefaultBusinessInfo == Obj([name |-> "VKM Associates", owner |-> "Manorma Sharma",
                            address |-> "Siwala Adalhat, Mirzapur, Uttar Pradesh",
                            coords |-> [lat |-> 25083, lng |-> 82777]])

\* values callers pass to setBusinessInfo: an object, and the falsy null
InfoValues == {Obj([name |-> "Acme"]), Null}

\* getBusinessInfo's result: row?.value || null
GetBusinessInfo(st) == IF Has(st, "business") /\ Truthy(st["business"].value)
                       THEN st["business"].value ELSE Null

\* settings.put({ key: 'business', value: info })
SetBusinessInfo(st, info) == Put(st, "business", [key |-> "business", value |-> info])

\* faulty variant: the seed is written whatever getBusinessInfo returned
SeedMissingAlways(existing) == TRUE

\* init's test `if (!existing)` on the result of getBusinessInfo
SeedMissing(existing) == ~Truthy(existing)

(* -------------------------------- init --------------------------------- *)
\* init() takes no argument; the call is tagged with whether it is made when
\* the latest settlement of the page is an init() that returned true and no
\* other call is in flight
AfterInit == [after |-> /\ lastReturn.op = "init"
                        /\ lastReturn.status = "resolved"
                        /\ \A r \in Slots : calls[r].op = "idle"]

\* init(): if (!db) await openDB(); otherwise straight on to getBusinessInfo()
InitCall(s) ==
    /\ CanCall(s)
    /\ IF db = "undefined"
       THEN /\ calls' = Start(s, "init", "init_open", AfterInit, <<>>)
            /\ UNCHANGED txQueue
       ELSE /\ calls' = Start(s, "init", "init_get", AfterInit, <<>>)
            /\ txQueue' = Tx(txQueue, "settings", s)
    /\ nCalls' = nCalls + 1
    /\ UNCHANGED <<stores, localStorage, db, hasRandomUUID, now, uuids, lastReturn, initDone, preLogout>>

\* indexedDB.open succeeds: onupgradeneeded if needed, then onsuccess sets db;
\* init goes on to getBusinessInfo()
InitOpenSuccess(s) ==
    /\ At(s, "init_open")
    /\ IF UpgradeNeeded
       THEN \E t \in Readings(now) : Upgrade(t) /\ now' = t
       ELSE UNCHANGED <<stores, now, initDone, preLogout>>
    /\ db' = "open"
    /\ calls' = Goto(s, "init_get", <<>>)
    /\ txQueue' = Tx(txQueue, "settings", s)
    /\ UNCHANGED <<localStorage, hasRandomUUID, uuids, lastReturn, nCalls, initDone, preLogout>>

\* faulty variant: the error of the open is swallowed and init returns true
InitOpenErrorSwallowed(s) ==
    /\ At(s, "init_open")
    /\ calls' = Finish(s)
    /\ lastReturn' = Resolved("init", calls[s].arg, TRUE)
    /\ UNCHANGED <<stores, localStorage, db, hasRandomUUID, now, uuids, txQueue, nCalls, initDone, preLogout>>

\* indexedDB.open fails: req.onerror rejects, and init rejects with that error
InitOpenError(s) ==
    /\ At(s, "init_open")
    /\ calls' = Finish(s)
    /\ lastReturn' = Rejected("init", calls[s].arg, "OpenError")
    /\ UNCHANGED <<stores, localStorage, db, hasRandomUUID, now, uuids, txQueue, nCalls, initDone, preLogout>>

\* getBusinessInfo() resolves inside init: return true, or go on to
\* setBusinessInfo(default)
InitGet(s) ==
    /\ At(s, "init_get")
    /\ Runs("settings", s)
    /\ IF SeedMissing(GetBusinessInfo(settings))
       THEN /\ calls' = Goto(s, "init_put", <<>>)
            /\ txQueue' = Tx(Commit(txQueue, "settings"), "settings", s)
            /\ UNCHANGED <<lastReturn, initDone, preLogout>>
       ELSE /\ calls' = Finish(s)
            /\ txQueue' = Commit(txQueue, "settings")
            /\ lastReturn' = Resolved("init", calls[s].arg, TRUE)
            /\ initDone' = TRUE
    /\ UNCHANGED <<stores, localStorage, db, hasRandomUUID, now, uuids, nCalls, preLogout>>

\* setBusinessInfo(default) resolves inside init: the seed is written
InitPut(s) ==
    /\ At(s, "init_put")
    /\ Runs("settings", s)
    /\ settings' = SetBusinessInfo(settings, DefaultBusinessInfo)
    /\ calls' = Finish(s)
    /\ txQueue' = Commit(txQueue, "settings")
    /\ lastReturn' = Resolved("init", calls[s].arg, TRUE)
    /\ initDone' = TRUE
    /\ UNCHANGED <<dbVersion, objectStoreNames, products, media, users, localStorage,
                   db, hasRandomUUID, now, uuids, nCalls, preLogout>>

(* ---------------------- setBusinessInfo / getBusinessInfo -------------- *)
SetBusinessInfoCall(s, info) ==
    /\ CanCall(s)
    /\ db = "open"
    /\ calls' = Start(s, "setBusinessInfo", "setbiz_put", info, <<>>)
    /\ txQueue' = Tx(txQueue, "settings", s)
    /\ nCalls' = nCalls + 1
    /\ UNCHANGED <<stores, localStorage, db, hasRandomUUID, now, uuids, lastReturn, initDone, preLogout>>

SetBusinessInfoPut(s) ==
    /\ At(s, "setbiz_put")
    /\ Runs("settings", s)
    /\ settings' = SetBusinessInfo(settings, calls[s].arg)
    /\ calls' = Finish(s)
    /\ txQueue' = Commit(txQueue, "settings")
    /\ lastReturn' = Resolved("setBusinessInfo", calls[s].arg, <<>>)
    /\ UNCHANGED <<dbVersion, objectStoreNames, products, media, users, localStorage,
                   db, hasRandomUUID, now, uuids, nCalls, initDone, preLogout>>

GetBusinessInfoCall(s) ==
    /\ CanCall(s)
    /\ db = "open"
    /\ calls' = Start(s, "getBusinessInfo", "getbiz_get", <<>>, <<>>)
    /\ txQueue' = Tx(txQueue, "settings", s)
    /\ nCalls' = nCalls + 1
    /\ UNCHANGED <<stores, localStorage, db, hasRandomUUID, now, uuids, lastReturn, initDone, preLogout>>

GetBusinessInfoGet(s) ==
    /\ At(s, "getbiz_get")
    /\ Runs("settings", s)
    /\ calls' = Finish(s)
    /\ txQueue' = Commit(txQueue, "settings")
    /\ lastReturn' = Resolved("getBusinessInfo", <<>>, GetBusinessInfo(settings))
    /\ UNCHANGED <<stores, localStorage, db, hasRandomUUID, now, uuids, nCalls, initDone, preLogout>>

(* ----------------------------- owner login ----------------------------- *)
Usernames == {"VKM2009", "guest"}
Passwords == {"VKM1998", "wrong"}

\* faulty variant: the password is not compared
CredentialsOkAnyPassword(st, username, password) ==
    /\ Has(st, username)
    /\ st[username].role = "owner"

\* Boolean(user && user.password === password && user.role === 'owner')
CredentialsOk(st, username, password) ==
    /\ Has(st, username)
    /\ st[username].password = password
    /\ st[username].role = "owner"

\* localStorage.setItem / removeItem / getItem(...) === '1'
SetItem(ls, key, value) == Put(ls, key, value)
RemoveItem(ls, key) == [k \in DOMAIN ls \ {key} |-> ls[k]]
IsOwner(ls) == Has(ls, SESSION_KEY) /\ ls[SESSION_KEY] = "1"

LoginOwnerCall(s, username, password) ==
    /\ CanCall(s)
    /\ db = "open"
    /\ calls' = Start(s, "loginOwner", "login_get", [username |-> username, password |-> password], <<>>)
    /\ txQueue' = Tx(txQueue, "users", s)
    /\ nCalls' = nCalls + 1
    /\ UNCHANGED <<stores, localStorage, db, hasRandomUUID, now, uuids, lastReturn, initDone, preLogout>>

\* faulty variant: the flag is set whatever ok is
LoginFlagAlways(ls, ok) == Put(ls, SESSION_KEY, "1")

\* the flag after loginOwner's `if (ok) localStorage.setItem(...)`
LoginFlag(ls, ok) == IF ok THEN SetItem(ls, SESSION_KEY, "1") ELSE ls

\* users.get(username) resolves: compute ok, set the flag if ok, return ok
LoginOwnerGet(s) ==
    /\ At(s, "login_get")
    /\ Runs("users", s)
    /\ LET ok == CredentialsOk(users, calls[s].arg.username, calls[s].arg.password)
       IN /\ localStorage' = LoginFlag(localStorage, ok)
          /\ lastReturn' = Resolved("loginOwner", calls[s].arg, ok)
    /\ calls' = Finish(s)
    /\ txQueue' = Commit(txQueue, "users")
    /\ preLogout' = preLogout \ {s}
    /\ UNCHANGED <<stores, db, hasRandomUUID, now, uuids, nCalls, initDone>>

\* the flag after logoutOwner's localStorage.removeItem(...)
LogoutFlag(ls) == RemoveItem(ls, SESSION_KEY)

\* logoutOwner(): synchronous
LogoutOwner ==
    /\ nCalls < MaxCalls
    /\ localStorage' = LogoutFlag(localStorage)
    /\ lastReturn' = Resolved("logoutOwner", <<>>, <<>>)
    /\ nCalls' = nCalls + 1
    /\ preLogout' = {s \in Slots : calls[s].op = "loginOwner"}
    /\ UNCHANGED <<stores, db, hasRandomUUID, now, uuids, txQueue, calls, initDone>>

\* isOwner(): synchronous
IsOwnerCall ==
    /\ nCalls < MaxCalls
    /\ lastReturn' = Resolved("isOwner", <<>>, IsOwner(localStorage))
    /\ nCalls' = nCalls + 1
    /\ UNCHANGED <<stores, localStorage, db, hasRandomUUID, now, uuids, txQueue, calls, initDone, preLogout>>

(* -------------------------------- ids ---------------------------------- *)
\* crypto?.randomUUID ? crypto.randomUUID() : prefix + Date.now()
\* (the n-th UUID is a fresh key; 'p_' + t and 'm_' + t depend on t alone)
NewId(t) == IF hasRandomUUID THEN UUIDBase + uuids + 1 ELSE FallbackBase + t
\* what the clock may read where the id is made: Date.now() is only called
\* on the fallback path
IdReadings(t) == IF hasRandomUUID THEN {t} ELSE Readings(t)
UuidsAfterNewId == IF hasRandomUUID THEN uuids + 1 ELSE uuids

(* ------------------------------- media --------------------------------- *)
Files == {[name |-> "logo.png", type |-> "image/png", size |-> 3]}

\* the record saveMedia builds
MediaRecord(id, file, t) == [id |-> id, name |-> file.name, type |-> file.type,
                             size |-> file.size, blob |-> file, createdAt |-> t]

\* faulty variant: the record is never found
MediaUrlNever(st, id) == Null

\* getMediaUrl's result: null, or URL.createObjectURL(rec.blob)
MediaUrl(st, id) == IF Has(st, id) THEN [type |-> "url", blob |-> st[id].blob] ELSE Null

SaveMediaCall(s, file) ==
    /\ CanCall(s)
    /\ db = "open"
    /\ \E t1 \in IdReadings(now) : \E t2 \in Readings(t1) :
         /\ now' = t2
         /\ calls' = Start(s, "saveMedia", "save_put", file, MediaRecord(NewId(t1), file, t2))
    /\ uuids' = UuidsAfterNewId
    /\ txQueue' = Tx(txQueue, "media", s)
    /\ nCalls' = nCalls + 1
    /\ UNCHANGED <<stores, localStorage, db, hasRandomUUID, lastReturn, initDone, preLogout>>

SaveMediaPut(s) ==
    /\ At(s, "save_put")
    /\ Runs("media", s)
    /\ media' = Put(media, calls[s].loc.id, calls[s].loc)
    /\ calls' = Finish(s)
    /\ txQueue' = Commit(txQueue, "media")
    /\ lastReturn' = Resolved("saveMedia", calls[s].arg, calls[s].loc.id)
    /\ UNCHANGED <<dbVersion, objectStoreNames, products, settings, users, localStorage,
                   db, hasRandomUUID, now, uuids, nCalls, initDone, preLogout>>

GetMediaUrlCall(s, id) ==
    /\ CanCall(s)
    /\ db = "open"
    /\ calls' = Start(s, "getMediaUrl", "url_get", id, <<>>)
    /\ txQueue' = Tx(txQueue, "media", s)
    /\ nCalls' = nCalls + 1
    /\ UNCHANGED <<stores, localStorage, db, hasRandomUUID, now, uuids, lastReturn, initDone, preLogout>>

GetMediaUrlGet(s) ==
    /\ At(s, "url_get")
    /\ Runs("media", s)
    /\ calls' = Finish(s)
    /\ txQueue' = Commit(txQueue, "media")
    /\ lastReturn' = Resolved("getMediaUrl", calls[s].arg, MediaUrl(media, calls[s].arg))
    /\ UNCHANGED <<stores, localStorage, db, hasRandomUUID, now, uuids, nCalls, initDone, preLogout>>

\* setLogo(file): the synchronous part of saveMedia(file)
SetLogoCall(s, file) ==
    /\ CanCall(s)
    /\ db = "open"
    /\ \E t1 \in IdReadings(now) : \E t2 \in Readings(t1) :
         /\ now' = t2
         /\ calls' = Start(s, "setLogo", "logo_save", file, MediaRecord(NewId(t1), file, t2))
    /\ uuids' = UuidsAfterNewId
    /\ txQueue' = Tx(txQueue, "media", s)
    /\ nCalls' = nCalls + 1
    /\ UNCHANGED <<stores, localStorage, db, hasRandomUUID, lastReturn, initDone, preLogout>>

\* saveMedia resolves inside setLogo: the settings put is issued
SetLogoSave(s) ==
    /\ At(s, "logo_save")
    /\ Runs("media", s)
    /\ media' = Put(media, calls[s].loc.id, calls[s].loc)
    /\ calls' = Goto(s, "logo_put", calls[s].loc.id)
    /\ txQueue' = Tx(Commit(txQueue, "media"), "settings", s)
    /\ UNCHANGED <<dbVersion, objectStoreNames, products, settings, users, localStorage,
                   db, hasRandomUUID, now, uuids, lastReturn, nCalls, initDone, preLogout>>

\* settings.put({ key: 'logoMediaId', value: mediaId }) resolves
SetLogoPut(s) ==
    /\ At(s, "logo_put")
    /\ Runs("settings", s)
    /\ settings' = Put(settings, "logoMediaId", [key |-> "logoMediaId", value |-> calls[s].loc])
    /\ calls' = Finish(s)
    /\ txQueue' = Commit(txQueue, "settings")
    /\ lastReturn' = Resolved("setLogo", calls[s].arg, calls[s].loc)
    /\ UNCHANGED <<dbVersion, objectStoreNames, products, media, users, localStorage,
                   db, hasRandomUUID, now, uuids, nCalls, initDone, preLogout>>

GetLogoUrlCall(s) ==
    /\ CanCall(s)
    /\ db = "open"
    /\ calls' = Start(s, "getLogoUrl", "logourl_get", <<>>, <<>>)
    /\ txQueue' = Tx(txQueue, "settings", s)
    /\ nCalls' = nCalls + 1
    /\ UNCHANGED <<stores, localStorage, db, hasRandomUUID, now, uuids, lastReturn, initDone, preLogout>>

\* settings.get('logoMediaId') resolves: null, or on to getMediaUrl(row.value)
GetLogoUrlGet(s) ==
    /\ At(s, "logourl_get")
    /\ Runs("settings", s)
    /\ IF Has(settings, "logoMediaId")
       THEN /\ calls' = Goto(s, "logourl_media", settings["logoMediaId"].value)
            /\ txQueue' = Tx(Commit(txQueue, "settings"), "media", s)
            /\ UNCHANGED <<lastReturn, initDone, preLogout>>
       ELSE /\ calls' = Finish(s)
            /\ txQueue' = Commit(txQueue, "settings")
            /\ lastReturn' = Resolved("getLogoUrl", <<>>, Null)
    /\ UNCHANGED <<stores, localStorage, db, hasRandomUUID, now, uuids, nCalls, initDone, preLogout>>

GetLogoUrlMedia(s) ==
    /\ At(s, "logourl_media")
    /\ Runs("media", s)
    /\ calls' = Finish(s)
    /\ txQueue' = Commit(txQueue, "media")
    /\ lastReturn' = Resolved("getLogoUrl", <<>>, MediaUrl(media, calls[s].loc))
    /\ UNCHANGED <<stores, localStorage, db, hasRandomUUID, now, uuids, nCalls, initDone, preLogout>>

(* ------------------------------ products ------------------------------ *)
\* inputs of addProduct: one with every field omitted but the name, one with
\* every field given and a caller-chosen id
ProductInputs == {[name |-> "pen"],
                  [id |-> 1, name |-> "desk", category |-> "Furniture", price |-> 5, stock |-> 2,
                   imageMediaId |-> UUIDBase + 1, description |-> "oak"]}

\* inputs of updateProduct
UpdateInputs == {[price |-> 7], [id |-> 2], [createdAt |-> 9]}

\* ids callers pass to updateProduct and deleteProduct
TargetIds == DOMAIN products \cup {1}

\* the property p[k], or d when the object has no such property
Prop(p, k, d) == IF k \in DOMAIN p THEN p[k] ELSE d

\* p.id || NewId: a caller's id is used when it is truthy
GivenId(p) == "id" \in DOMAIN p /\ p.id /= 0

\* the record addProduct builds; t1 and t2 are its two readings of Date.now()
MakeProduct(p, id, t1, t2) ==
    [id |-> id,
     name |-> Prop(p, "name", Undefined),
     category |-> IF Prop(p, "category", "") /= "" THEN p.category ELSE "Stationery",
     price |-> Prop(p, "price", 0),
     stock |-> Prop(p, "stock", 0),
     imageMediaId |-> Prop(p, "imageMediaId", NullId),
     description |-> Prop(p, "description", ""),
     createdAt |-> t1,
     updatedAt |-> t2]

\* { ...a, ...b }: the properties of b over those of a
Spread(a, b) == [k \in DOMAIN a \cup DOMAIN b |-> IF k \in DOMAIN b THEN b[k] ELSE a[k]]

\* the record updateProduct writes: { ...existing, ...updates, updatedAt: Date.now() }
NextProduct(existing, updates, t) == Spread(Spread(existing, updates), [updatedAt |-> t])

\* addProduct(p): the record is built and the put issued; createdAt and
\* updatedAt are two readings of Date.now(), after the one the fallback id
\* is made of
AddProductCall(s, p) ==
    /\ CanCall(s)
    /\ db = "open"
    /\ \E t0 \in (IF GivenId(p) THEN {now} ELSE IdReadings(now)) :
       \E t1 \in Readings(t0) : \E t2 \in Readings(t1) :
         /\ now' = t2
         /\ calls' = Start(s, "addProduct", "add_put", p,
                           MakeProduct(p, IF GivenId(p) THEN p.id ELSE NewId(t0), t1, t2))
    /\ uuids' = IF GivenId(p) THEN uuids ELSE UuidsAfterNewId
    /\ txQueue' = Tx(txQueue, "products", s)
    /\ nCalls' = nCalls + 1
    /\ UNCHANGED <<stores, localStorage, db, hasRandomUUID, lastReturn, initDone, preLogout>>

\* products.put(product) resolves: return product
AddProductPut(s) ==
    /\ At(s, "add_put")
    /\ Runs("products", s)
    /\ products' = Put(products, calls[s].loc.id, calls[s].loc)
    /\ calls' = Finish(s)
    /\ txQueue' = Commit(txQueue, "products")
    /\ lastReturn' = Resolved("addProduct", calls[s].arg, calls[s].loc)
    /\ UNCHANGED <<dbVersion, objectStoreNames, media, settings, users, localStorage,
                   db, hasRandomUUID, now, uuids, nCalls, initDone, preLogout>>

\* updateProduct(id, updates); the call is tagged with whether another
\* updateProduct on the same id is in flight when it is made
Concurrent(id) == \E r \in Slots : calls[r].op = "updateProduct" /\ calls[r].arg.id = id

UpdateProductCall(s, id, updates) ==
    /\ CanCall(s)
    /\ db = "open"
    /\ calls' = Start(s, "updateProduct", "upd_get",
                      [id |-> id, updates |-> updates, concurrent |-> Concurrent(id)], <<>>)
    /\ txQueue' = Tx(txQueue, "products", s)
    /\ nCalls' = nCalls + 1
    /\ UNCHANGED <<stores, localStorage, db, hasRandomUUID, now, uuids, lastReturn, initDone, preLogout>>

\* faulty variant: a missing record is not an error, the updates are written
\* as a new record
UpdateProductGetUpsert(s) ==
    /\ At(s, "upd_get")
    /\ Runs("products", s)
    /\ \E t \in Readings(now) :
         /\ now' = t
         /\ calls' = Goto(s, "upd_put",
                          NextProduct(IF Has(products, calls[s].arg.id) THEN products[calls[s].arg.id]
                                      ELSE [id |-> calls[s].arg.id],
                                      calls[s].arg.updates, t))
    /\ UNCHANGED <<stores, localStorage, db, hasRandomUUID, uuids, txQueue, lastReturn, nCalls, initDone, preLogout>>

\* products.get(id) resolves: throw if nothing was found, else build next and
\* issue the put in the same transaction
UpdateProductGet(s) ==
    /\ At(s, "upd_get")
    /\ Runs("products", s)
    /\ IF ~Has(products, calls[s].arg.id)
       THEN /\ calls' = Finish(s)
            /\ txQueue' = Commit(txQueue, "products")
            /\ lastReturn' = Rejected("updateProduct", calls[s].arg, "Product not found")
            /\ UNCHANGED now
       ELSE /\ \E t \in Readings(now) :
                 /\ now' = t
                 /\ calls' = Goto(s, "upd_put", NextProduct(products[calls[s].arg.id], calls[s].arg.updates, t))
            /\ UNCHANGED <<txQueue, lastReturn, initDone, preLogout>>
    /\ UNCHANGED <<stores, localStorage, db, hasRandomUUID, uuids, nCalls, initDone, preLogout>>

\* products.put(next) resolves: return next
UpdateProductPut(s) ==
    /\ At(s, "upd_put")
    /\ Runs("products", s)
    /\ products' = Put(products, calls[s].loc.id, calls[s].loc)
    /\ calls' = Finish(s)
    /\ txQueue' = Commit(txQueue, "products")
    /\ lastReturn' = Resolved("updateProduct", calls[s].arg, calls[s].loc)
    /\ UNCHANGED <<dbVersion, objectStoreNames, media, settings, users, localStorage,
                   db, hasRandomUUID, now, uuids, nCalls, initDone, preLogout>>

DeleteProductCall(s, id) ==
    /\ CanCall(s)
    /\ db = "open"
    /\ calls' = Start(s, "deleteProduct", "del_delete", id, <<>>)
    /\ txQueue' = Tx(txQueue, "products", s)
    /\ nCalls' = nCalls + 1
    /\ UNCHANGED <<stores, localStorage, db, hasRandomUUID, now, uuids, lastReturn, initDone, preLogout>>

\* products.delete(id) resolves
DeleteProductDelete(s) ==
    /\ At(s, "del_delete")
    /\ Runs("products", s)
    /\ products' = Delete(products, calls[s].arg)
    /\ calls' = Finish(s)
    /\ txQueue' = Commit(txQueue, "products")
    /\ lastReturn' = Resolved("deleteProduct", calls[s].arg, <<>>)
    /\ UNCHANGED <<dbVersion, objectStoreNames, media, settings, users, localStorage,
                   db, hasRandomUUID, now, uuids, nCalls, initDone, preLogout>>

\* the keys of a set in ascending order
RECURSIVE KeySeq(_)
KeySeq(S) == IF S = {} THEN <<>>
             ELSE LET m == CHOOSE x \in S : \A y \in S : x <= y
                  IN <<m>> \o KeySeq(S \ {m})

\* products.getAll(): the records in key order
GetAll(store) == LET ks == KeySeq(DOMAIN store) IN [i \in 1..Len(ks) |-> store[ks[i]]]

\* x put into a sequence sorted by createdAt descending, after its equals
InsertDesc(x, sorted) ==
    LET n == Cardinality({i \in 1..Len(sorted) : sorted[i].createdAt >= x.createdAt})
    IN SubSeq(sorted, 1, n) \o <<x>> \o SubSeq(sorted, n + 1, Len(sorted))

\* .sort((a, b) => b.createdAt - a.createdAt): a stable sort
RECURSIVE SortDesc(_)
SortDesc(seq) == IF seq = <<>> THEN <<>>
                 ELSE InsertDesc(seq[Len(seq)], SortDesc(SubSeq(seq, 1, Len(seq) - 1)))

\* filters callers pass to listProducts: none, or a category
Filters == {<<>>, [category |-> "Furniture"], [category |-> "Stationery"]}

\* p => !filter.category || p.category === filter.category
Matches(filter, p) == Prop(filter, "category", "") = "" \/ p.category = filter.category

\* listProducts' result for the records getAll returned
ListProducts(store, filter) == SortDesc(SelectSeq(GetAll(store), LAMBDA p : Matches(filter, p)))

ListProductsCall(s, filter) ==
    /\ CanCall(s)
    /\ db = "open"
    /\ calls' = Start(s, "listProducts", "list_getAll", filter, <<>>)
    /\ txQueue' = Tx(txQueue, "products", s)
    /\ nCalls' = nCalls + 1
    /\ UNCHANGED <<stores, localStorage, db, hasRandomUUID, now, uuids, lastReturn, initDone, preLogout>>

ListProductsGetAll(s) ==
    /\ At(s, "list_getAll")
    /\ Runs("products", s)
    /\ calls' = Finish(s)
    /\ txQueue' = Commit(txQueue, "products")
    /\ lastReturn' = Resolved("listProducts", calls[s].arg, ListProducts(products, calls[s].arg))
    /\ UNCHANGED <<stores, localStorage, db, hasRandomUUID, now, uuids, nCalls, initDone, preLogout>>

(* ------------------------------ environment ---------------------------- *)
\* an async store operation called while db is still undefined: tx() throws a
\* TypeError on db.transaction and the call rejects
AsyncOps == {"saveMedia", "getMediaUrl", "setLogo", "getLogoUrl", "addProduct", "updateProduct",
             "deleteProduct", "listProducts", "setBusinessInfo", "getBusinessInfo", "loginOwner"}

CallWithoutDb(op) ==
    /\ nCalls < MaxCalls
    /\ db = "undefined"
    /\ lastReturn' = [op |-> op, arg |-> <<>>, status |-> "rejected", value |-> "TypeError", nth |-> 0]
    /\ nCalls' = nCalls + 1
    /\ UNCHANGED <<stores, localStorage, db, hasRandomUUID, now, uuids, txQueue, calls, initDone, preLogout>>

\* the page is reloaded: the handle and the calls in flight are gone, the
\* database and localStorage persist
Reload ==
    /\ db = "open"
    /\ db' = "undefined"
    /\ calls' = [s \in Slots |-> Idle]
    /\ txQueue' = [n \in StoreNames |-> <<>>]
    /\ lastReturn' = NoReturn
    /\ initDone' = FALSE
    /\ preLogout' = {}
    /\ UNCHANGED <<stores, localStorage, hasRandomUUID, now, uuids, nCalls>>

(* ---------------------------- specification ---------------------------- *)
\* init() and openDB()
Lifecycle ==
    \/ \E s \in Slots : InitCall(s)
    \/ \E s \in Slots : InitOpenSuccess(s)
    \/ \E s \in Slots : InitOpenError(s)
    \/ \E s \in Slots : InitGet(s)
    \/ \E s \in Slots : InitPut(s)

\* setBusinessInfo and getBusinessInfo
Settings ==
    \/ \E s \in Slots, info \in InfoValues : SetBusinessInfoCall(s, info)
    \/ \E s \in Slots : SetBusinessInfoPut(s)
    \/ \E s \in Slots : GetBusinessInfoCall(s)
    \/ \E s \in Slots : GetBusinessInfoGet(s)

\* loginOwner, logoutOwner, isOwner
Session ==
    \/ \E s \in Slots, u \in Usernames, p \in Passwords : LoginOwnerCall(s, u, p)
    \/ \E s \in Slots : LoginOwnerGet(s)
    \/ LogoutOwner
    \/ IsOwnerCall

\* saveMedia, getMediaUrl, setLogo, getLogoUrl
Media ==
    \/ \E s \in Slots, f \in Files : SaveMediaCall(s, f)
    \/ \E s \in Slots : SaveMediaPut(s)
    \/ \E s \in Slots, id \in DOMAIN media \cup {UUIDBase + 1} : GetMediaUrlCall(s, id)
    \/ \E s \in Slots : GetMediaUrlGet(s)
    \/ \E s \in Slots, f \in Files : SetLogoCall(s, f)
    \/ \E s \in Slots : SetLogoSave(s)
    \/ \E s \in Slots : SetLogoPut(s)
    \/ \E s \in Slots : GetLogoUrlCall(s)
    \/ \E s \in Slots : GetLogoUrlGet(s)
    \/ \E s \in Slots : GetLogoUrlMedia(s)

\* addProduct
Adding ==
    \/ \E s \in Slots, p \in ProductInputs : AddProductCall(s, p)
    \/ \E s \in Slots : AddProductPut(s)

\* updateProduct
Updating ==
    \/ \E s \in Slots, id \in TargetIds, u \in UpdateInputs : UpdateProductCall(s, id, u)
    \/ \E s \in Slots : UpdateProductGet(s)
    \/ \E s \in Slots : UpdateProductPut(s)

\* deleteProduct
Deleting ==
    \/ \E s \in Slots, id \in TargetIds : DeleteProductCall(s, id)
    \/ \E s \in Slots : DeleteProductDelete(s)

\* listProducts
Listing ==
    \/ \E s \in Slots, f \in Filters : ListProductsCall(s, f)
    \/ \E s \in Slots : ListProductsGetAll(s)

\* updateProduct with a category among the updates
CategoryUpdates == {[category |-> ""]}

Recategorising ==
    \/ \E s \in Slots, id \in DOMAIN products, u \in CategoryUpdates : UpdateProductCall(s, id, u)
    \/ \E s \in Slots : UpdateProductGet(s)
    \/ \E s \in Slots : UpdateProductPut(s)

\* listProducts with no filter, or with the category of a stored product
StoredFilters == {<<>>} \cup {[category |-> products[k].category] : k \in DOMAIN products}

ListingStored ==
    \/ \E s \in Slots, f \in StoredFilters : ListProductsCall(s, f)
    \/ \E s \in Slots : ListProductsGetAll(s)

\* addProduct, updateProduct, deleteProduct, listProducts
Products == Adding \/ Updating \/ Deleting \/ Listing

\* calls made before init() has opened the database
Early == \E op \in AsyncOps : CallWithoutDb(op)

\* every public operation of window.VKM
Next == Lifecycle \/ Settings \/ Session \/ Media \/ Products \/ Early \/ Reload
Spec == Init /\ [][Next]_vars

\* the lifecycle, the settings and the session operations
NextSession == Lifecycle \/ Settings \/ Session \/ Early \/ Reload
SpecSession == Init /\ [][NextSession]_vars

\* init, addProduct and updateProduct
NextUpdate == Lifecycle \/ Adding \/ Updating
SpecUpdate == Init /\ [][NextUpdate]_vars

\* updateProduct of one field, the price or the stock
FieldUpdates == {[price |-> 7], [stock |-> 4]}

UpdatingFields ==
    \/ \E s \in Slots, id \in TargetIds, u \in FieldUpdates : UpdateProductCall(s, id, u)
    \/ \E s \in Slots : UpdateProductGet(s)
    \/ \E s \in Slots : UpdateProductPut(s)

\* init, addProduct and updateProduct of one field
NextFields == Lifecycle \/ Adding \/ UpdatingFields
SpecFields == Init /\ [][NextFields]_vars

\* setBusinessInfo with an object, null or the empty string, and
\* getBusinessInfo
AnyInfoValues == InfoValues \cup {Str("")}

SettingsAny ==
    \/ \E s \in Slots, info \in AnyInfoValues : SetBusinessInfoCall(s, info)
    \/ \E s \in Slots : SetBusinessInfoPut(s)
    \/ \E s \in Slots : GetBusinessInfoCall(s)
    \/ \E s \in Slots : GetBusinessInfoGet(s)

\* init, setBusinessInfo and getBusinessInfo
NextSettings == Lifecycle \/ SettingsAny
SpecSettings == Init /\ [][NextSettings]_vars

\* init, calls before init and page reloads; the engine answers every open
\* request, with success or with an error
NextOpen == Lifecycle \/ Early \/ Reload
OpenSettles == \A s \in Slots : WF_vars(InitOpenSuccess(s) \/ InitOpenError(s))
SpecOpen == Init /\ [][NextOpen]_vars /\ OpenSettles

\* addProduct and updateProduct with negative numbers
NegativeProducts == {[name |-> "pen", price |-> -1, stock |-> -2]}
NegativeUpdates == {[price |-> -3], [stock |-> -1]}

Pricing ==
    \/ \E s \in Slots, p \in NegativeProducts : AddProductCall(s, p)
    \/ \E s \in Slots : AddProductPut(s)
    \/ \E s \in Slots, id \in DOMAIN products, u \in NegativeUpdates : UpdateProductCall(s, id, u)
    \/ \E s \in Slots : UpdateProductGet(s)
    \/ \E s \in Slots : UpdateProductPut(s)

\* init, addProduct and updateProduct with negative numbers
NextPricing == Lifecycle \/ Pricing
SpecPricing == Init /\ [][NextPricing]_vars

\* init, addProduct and deleteProduct
NextDelete == Lifecycle \/ Adding \/ Deleting
SpecDelete == Init /\ [][NextDelete]_vars

\* the media operations: saveMedia of two different files, setLogo of the
\* logo file
UploadFiles == Files \cup {[name |-> "photo.jpg", type |-> "image/jpeg", size |-> 5]}

Uploading ==
    \/ \E s \in Slots, f \in UploadFiles : SaveMediaCall(s, f)
    \/ \E s \in Slots : SaveMediaPut(s)
    \/ \E s \in Slots, f \in Files : SetLogoCall(s, f)
    \/ \E s \in Slots : SetLogoSave(s)
    \/ \E s \in Slots : SetLogoPut(s)
    \/ \E s \in Slots : GetLogoUrlCall(s)
    \/ \E s \in Slots : GetLogoUrlGet(s)
    \/ \E s \in Slots : GetLogoUrlMedia(s)

\* init, the media operations, and page reloads
NextMedia == Lifecycle \/ Uploading \/ Reload
SpecMedia == Init /\ [][NextMedia]_vars

\* a page opened on the database an earlier page left behind: that page ran
\* init() and addProduct of the desk with the caller's id 1 at clock 0
Desk == [id |-> 1, name |-> "desk", category |-> "Furniture", price |-> 5, stock |-> 2,
         imageMediaId |-> UUIDBase + 1, description |-> "oak"]

InitStocked ==
    /\ dbVersion = DB_VERSION
    /\ objectStoreNames = StoreNames
    /\ products = Put(<<>>, 1, MakeProduct(Desk, 1, 0, 0))
    /\ media = <<>>
    /\ settings = SetBusinessInfo(<<>>, DefaultBusinessInfo)
    /\ users = Put(<<>>, "VKM2009", SeedOwner(0))
    /\ localStorage = <<>>
    /\ db = "undefined"
    /\ hasRandomUUID \in BOOLEAN
    /\ now = 0
    /\ uuids = 0
    /\ txQueue = [n \in StoreNames |-> <<>>]
    /\ calls = [s \in Slots |-> Idle]
    /\ lastReturn = NoReturn
    /\ initDone = FALSE
    /\ preLogout = {}
    /\ nCalls = 0

\* init() on that database: the "business" setting is stored, so the seed
\* write is never reached
Reopening ==
    \/ \E s \in Slots : InitCall(s)
    \/ \E s \in Slots : InitOpenSuccess(s)
    \/ \E s \in Slots : InitOpenError(s)
    \/ \E s \in Slots : InitGet(s)

\* init, addProduct, updateProduct of the category, listProducts
NextList == Reopening \/ Adding \/ Recategorising \/ ListingStored
SpecList == InitStocked /\ [][NextList]_vars

(* ------------------------------- claims -------------------------------- *)
\* C1: loginOwner(username, password) returns true and sets the session flag
\* only if a user record with that username exists, its password equals the
\* given one and its role is "owner"; otherwise it returns false and leaves
\* localStorage as it was, whether the flag was set or absent.
C1_LoginOwnerContract ==
    [][\A s \in Slots : LoginOwnerGet(s) =>
         LET a == calls[s].arg
             match == /\ a.username \in DOMAIN users
                      /\ users[a.username].password = a.password
                      /\ users[a.username].role = "owner"
         IN /\ lastReturn'.op = "loginOwner"
            /\ lastReturn'.status = "resolved"
            /\ lastReturn'.value = match
            /\ match => IsOwner(localStorage')
            /\ ~match => localStorage' = localStorage]_vars

\* a login with the owner's name and a wrong password has returned false
\* while the flag was set, and the flag is still set
C1_Witness ==
    /\ lastReturn.op = "loginOwner"
    /\ lastReturn.status = "resolved"
    /\ lastReturn.arg = [username |-> "VKM2009", password |-> "wrong"]
    /\ lastReturn.value = FALSE
    /\ IsOwner(localStorage)

\* C2: the value isOwner() reports turns from false to true only in the step
\* in which a loginOwner with matching credentials returns true, and from true
\* to false only in a logoutOwner step; no other step of any operation
\* changes localStorage.
C2_SessionTransitions ==
    [][LET login == \E s \in Slots :
                       /\ LoginOwnerGet(s)
                       /\ lastReturn'.value = TRUE
                       /\ calls[s].arg.username \in DOMAIN users
                       /\ users[calls[s].arg.username].password = calls[s].arg.password
       IN /\ (~IsOwner(localStorage) /\ IsOwner(localStorage')) => login
          /\ (IsOwner(localStorage) /\ ~IsOwner(localStorage')) => LogoutOwner
          /\ localStorage' /= localStorage => (login \/ LogoutOwner)]_vars

\* isOwner() has reported true
C2_Witness ==
    /\ lastReturn.op = "isOwner"
    /\ lastReturn.value = TRUE

\* C3: once init() has returned true the handle is open, so loginOwner is
\* served by the users store; with the seeded credentials it returns true and
\* isOwner() is then true; logoutOwner() leaves isOwner() false whatever the
\* flag was.
C3_SeededLoginAndLogout ==
    /\ [](initDone => db = "open")
    /\ [][\A s \in Slots :
            (/\ LoginOwnerGet(s)
             /\ initDone
             /\ calls[s].arg = [username |-> "VKM2009", password |-> "VKM1998"])
            => (/\ lastReturn'.status = "resolved"
                /\ lastReturn'.value = TRUE
                /\ IsOwner(localStorage'))]_vars
    /\ [][LogoutOwner => ~IsOwner(localStorage')]_vars

\* after a completed init(), a login with the seeded credentials has returned
\* true and the flag is set
C3_Witness ==
    /\ initDone
    /\ lastReturn.op = "loginOwner"
    /\ lastReturn.arg = [username |-> "VKM2009", password |-> "VKM1998"]
    /\ lastReturn.value = TRUE
    /\ IsOwner(localStorage)

\* C4: init() is idempotent: an init() called right after an init() that
\* returned true (that is the latest settlement, and no other call is in
\* flight) leaves the four stores and localStorage as they are in every step
\* it takes, issues no write of the BusinessInfo, and returns true.
C4_InitIdempotent ==
    [][\A s \in Slots :
         (/\ calls[s].op = "init"
          /\ calls[s].arg.after
          /\ (InitOpenSuccess(s) \/ InitOpenError(s) \/ InitGet(s) \/ InitPut(s)))
         => (/\ stores' = stores
             /\ localStorage' = localStorage
             /\ calls'[s].pc /= "init_put"
             /\ calls'[s].pc = "idle" =>
                  (lastReturn'.status = "resolved" /\ lastReturn'.value = TRUE))]_vars

\* an init() called right after a completed init() has itself returned true
C4_Witness ==
    /\ lastReturn.op = "init"
    /\ lastReturn.status = "resolved"
    /\ lastReturn.arg.after
    /\ lastReturn.value = TRUE

\* C5: once a "business" setting is stored, the write of init()'s default
\* leaves it as it is, in every interleaving with setBusinessInfo.
C5_SeedNeverReplaces ==
    [][\A s \in Slots :
         (InitPut(s) /\ "business" \in DOMAIN settings)
         => settings'["business"] = settings["business"]]_vars

\* C6: updateProduct on an id that is not in products rejects with the
\* not-found error, issues no put, and leaves every store as it was; a put
\* of updateProduct is only ever issued for an id that is in products.
C6_UpdateMissingFails ==
    /\ [][\A s \in Slots :
            (UpdateProductGet(s) /\ calls[s].arg.id \notin DOMAIN products)
            => (/\ lastReturn'.op = "updateProduct"
                /\ lastReturn'.status = "rejected"
                /\ lastReturn'.value = "Product not found"
                /\ calls'[s] = Idle
                /\ stores' = stores)]_vars
    /\ [][\A s \in Slots : UpdateProductPut(s) => calls[s].arg.id \in DOMAIN products]_vars

\* an updateProduct has been rejected with the not-found error
C6_Witness ==
    /\ lastReturn.op = "updateProduct"
    /\ lastReturn.status = "rejected"
    /\ lastReturn.value = "Product not found"

\* C7: a successful updateProduct(id, updates) leaves the record under id with
\* the same id and the same createdAt, and creates or changes no record under
\* another id.
C7_UpdateKeepsIdAndCreatedAt ==
    [][\A s \in Slots : UpdateProductPut(s) =>
         LET id == calls[s].arg.id
         IN /\ id \in DOMAIN products'
            /\ products'[id].id = id
            /\ products'[id].createdAt = products[id].createdAt
            /\ \A k \in DOMAIN products' \ {id} : k \in DOMAIN products /\ products'[k] = products[k]]_vars

\* C8: updateProduct(id, {price: x}) sets the price to x, leaves every other
\* field but updatedAt and every other product as they were, and leaves
\* updatedAt strictly greater than createdAt.
C8_UpdatePrice ==
    [][\A s \in Slots :
         (UpdateProductPut(s) /\ calls[s].arg.updates = [price |-> 7])
         => LET id == calls[s].arg.id
                old == products[id]
                new == products'[id]
            IN /\ new.price = 7
               /\ DOMAIN new = DOMAIN old
               /\ \A k \in DOMAIN old \ {"price", "updatedAt"} : new[k] = old[k]
               /\ \A k \in DOMAIN products \ {id} : k \in DOMAIN products' /\ products'[k] = products[k]
               /\ DOMAIN products' = DOMAIN products
               /\ new.updatedAt > new.createdAt]_vars

\* C9: after addProduct(input), listProducts() holds exactly one record with
\* the returned id; its fields are the input's with the defaults filled in,
\* and its createdAt equals its updatedAt.
C9_AddThenList ==
    [][\A s \in Slots : AddProductPut(s) =>
         LET p == calls[s].arg
             r == lastReturn'.value
             list == ListProducts(products', <<>>)
         IN /\ Cardinality({i \in 1..Len(list) : list[i].id = r.id}) = 1
            /\ \A i \in 1..Len(list) : list[i].id = r.id => list[i] = r
            /\ "id" \in DOMAIN p => r.id = p.id
            /\ r.name = p.name
            /\ r.category = (IF "category" \in DOMAIN p THEN p.category ELSE "Stationery")
            /\ r.price = (IF "price" \in DOMAIN p THEN p.price ELSE 0)
            /\ r.stock = (IF "stock" \in DOMAIN p THEN p.stock ELSE 0)
            /\ r.description = (IF "description" \in DOMAIN p THEN p.description ELSE "")
            /\ r.imageMediaId = (IF "imageMediaId" \in DOMAIN p THEN p.imageMediaId ELSE NullId)
            /\ r.createdAt = r.updatedAt]_vars

\* C10: deleteProduct(id) resolves whether or not id is stored; afterwards id
\* is not in products nor in listProducts(); the other products are as they
\* were; on an id that is not stored the store is left as it was.
C10_DeleteIdempotent ==
    [][\A s \in Slots : DeleteProductDelete(s) =>
         LET id == calls[s].arg
             list == ListProducts(products', <<>>)
         IN /\ lastReturn'.op = "deleteProduct"
            /\ lastReturn'.status = "resolved"
            /\ id \notin DOMAIN products'
            /\ \A i \in 1..Len(list) : list[i].id /= id
            /\ \A k \in DOMAIN products \ {id} : k \in DOMAIN products' /\ products'[k] = products[k]
            /\ id \notin DOMAIN products => products' = products]_vars

\* deleteProduct has resolved twice in a row on the same generated id, which
\* was in products when each of the two calls was made
C10_Witness ==
    /\ lastReturn.op = "deleteProduct"
    /\ lastReturn.status = "resolved"
    /\ lastReturn.arg >= UUIDBase
    /\ lastReturn.nth = 2

\* C11: listProducts(filter) returns exactly the stored products whose
\* category equals filter.category (every stored product when there is no
\* filter), each once, ordered by createdAt descending, and leaves the
\* products store as it was; filter.category ranges over the categories of
\* the stored products, those written by updateProduct included.
C11_ListProducts ==
    [][\A s \in Slots : ListProductsGetAll(s) =>
         LET f == calls[s].arg
             r == lastReturn'.value
             wanted == {k \in DOMAIN products :
                          "category" \in DOMAIN f => products[k].category = f.category}
         IN /\ lastReturn'.status = "resolved"
            /\ {r[i] : i \in 1..Len(r)} = {products[k] : k \in wanted}
            /\ Len(r) = Cardinality(wanted)
            /\ \A i \in 1..(Len(r) - 1) : r[i].createdAt >= r[i + 1].createdAt
            /\ products' = products]_vars

\* C12: the logoMediaId setting appears only in the step in which a setLogo
\* completes, holds the id that setLogo returns, is never removed, and always
\* names a record that is in media; getLogoUrl() returns null when its read
\* finds no such setting, and otherwise a handle on the blob of the media
\* record the setting named when it was read.
C12_LogoUrl ==
    /\ [](Has(settings, "logoMediaId") => Has(media, settings["logoMediaId"].value))
    /\ [][/\ Has(settings, "logoMediaId") => Has(settings', "logoMediaId")
          /\ (~Has(settings, "logoMediaId") /\ Has(settings', "logoMediaId"))
                => \E s \in Slots : SetLogoPut(s)
          /\ \A s \in Slots : SetLogoPut(s) =>
                /\ lastReturn'.op = "setLogo"
                /\ lastReturn'.status = "resolved"
                /\ settings'["logoMediaId"].value = lastReturn'.value
          /\ \A s \in Slots : GetLogoUrlGet(s) =>
                IF Has(settings, "logoMediaId")
                THEN calls'[s].pc = "logourl_media" /\ calls'[s].loc = settings["logoMediaId"].value
                ELSE lastReturn'.op = "getLogoUrl" /\ lastReturn'.value = Null
          /\ \A s \in Slots : GetLogoUrlMedia(s) =>
                /\ lastReturn'.op = "getLogoUrl"
                /\ lastReturn'.status = "resolved"
                /\ lastReturn'.value /= Null
                /\ lastReturn'.value.blob = media[calls[s].loc].blob]_vars

\* getLogoUrl() has returned a handle
C12_Witness ==
    /\ lastReturn.op = "getLogoUrl"
    /\ lastReturn.status = "resolved"
    /\ lastReturn.value /= Null

\* C13: every saveMedia that completes stores its record under an id that no
\* media record has, so media grows by exactly one record; and no step of any
\* operation changes or removes a media record that is stored.
C13_MediaFreshAndImmutable ==
    [][/\ \A s \in Slots : SaveMediaPut(s) =>
             /\ ~Has(media, calls[s].loc.id)
             /\ Cardinality(DOMAIN media') = Cardinality(DOMAIN media) + 1
       /\ \A k \in DOMAIN media : Has(media', k) /\ media'[k] = media[k]]_vars

\* C14: setBusinessInfo(v) stores v in place of the previous value, and
\* getBusinessInfo() returns the value that is stored; it returns null only
\* when no "business" setting is stored.
C14_SetThenGet ==
    [][/\ \A s \in Slots : SetBusinessInfoPut(s) =>
             settings'["business"] = [key |-> "business", value |-> calls[s].arg]
       /\ \A s \in Slots : GetBusinessInfoGet(s) =>
             /\ lastReturn'.status = "resolved"
             /\ Has(settings, "business") => lastReturn'.value = settings["business"].value
             /\ lastReturn'.value = Null => ~Has(settings, "business")]_vars

\* C15: when indexedDB.open fails, init() rejects with the error of the open
\* in that step, writes nothing and does not set db; the handle is set only
\* by a successful open, and an init() called while db is undefined opens
\* again; an init() waiting for the open does not wait forever.
C15_OpenFailure ==
    /\ [][/\ \A s \in Slots : InitOpenError(s) =>
                /\ lastReturn'.op = "init"
                /\ lastReturn'.status = "rejected"
                /\ lastReturn'.value = "OpenError"
                /\ calls'[s] = Idle
                /\ stores' = stores
                /\ localStorage' = localStorage
                /\ db' = db
          /\ \A s \in Slots : (InitCall(s) /\ db = "undefined") => calls'[s].pc = "init_open"
          /\ (db = "undefined" /\ db' = "open") => \E s \in Slots : InitOpenSuccess(s)]_vars
    /\ \A s \in Slots : (calls[s].pc = "init_open") ~> (calls[s].pc /= "init_open")

\* an init() has been rejected with the error of the open, nothing is stored
\* and db is undefined, and a further init() is opening the database
C15_Witness ==
    /\ lastReturn.op = "init"
    /\ lastReturn.status = "rejected"
    /\ db = "undefined"
    /\ dbVersion = 0
    /\ \E s \in Slots : calls[s].pc = "init_open"

\* C16: once the database exists the users store holds exactly one record,
\* the owner seeded at schema creation, with its username, password and
\* role; users changes only in the step that creates it, so no public
\* operation writes it and a later open neither adds a row nor rewrites it.
C16_SingleOwner ==
    /\ []((dbVersion = DB_VERSION \/ db = "open" \/ initDone) =>
            /\ DOMAIN users = {"VKM2009"}
            /\ users["VKM2009"].username = "VKM2009"
            /\ users["VKM2009"].password = "VKM1998"
            /\ users["VKM2009"].role = "owner")
    /\ [][users' /= users =>
            (users = <<>> /\ dbVersion = 0 /\ \E s \in Slots : InitOpenSuccess(s))]_vars

\* the page has been reloaded after its first call, an init() of the new
\* page has opened the database again, and users holds the one owner row
C16_Witness ==
    /\ lastReturn = NoReturn
    /\ nCalls >= 2
    /\ \E s \in Slots : /\ calls[s].op = "init"
                         /\ calls[s].pc = "init_get"
                         /\ \A r \in Slots \ {s} : calls[r].op = "idle"
    /\ DOMAIN users = {"VKM2009"}

\* C17: every stored product has a price that is not negative and a stock
\* that is not negative.
C17_NonNegative ==
    \A id \in DOMAIN products : products[id].price >= 0 /\ products[id].stock >= 0

\* C18: an updateProduct holds the oldest live transaction on products from
\* its read to its put, so the record it has built agrees with the stored
\* one in every field it does not update; its put leaves those fields as
\* they are stored and sets the fields of its updates.  Two calls on one id
\* that change different fields are therefore both in the record at the end.
C18_NoLostUpdate ==
    /\ [](\A s \in Slots : calls[s].pc = "upd_put" =>
            LET a == calls[s].arg
            IN /\ Runs("products", s)
               /\ Has(products, a.id)
               /\ \A k \in DOMAIN products[a.id] \ (DOMAIN a.updates \cup {"updatedAt"}) :
                     calls[s].loc[k] = products[a.id][k])
    /\ [][\A s \in Slots : UpdateProductPut(s) =>
            LET a == calls[s].arg
            IN /\ Has(products', a.id)
               /\ \A k \in DOMAIN a.updates : products'[a.id][k] = a.updates[k]
               /\ \A k \in DOMAIN products[a.id] \ (DOMAIN a.updates \cup {"updatedAt"}) :
                     products'[a.id][k] = products[a.id][k]
               /\ lastReturn'.value = products'[a.id]]_vars

\* an updateProduct of the stock, called while an updateProduct of the price
\* of the same product was in flight, has returned, and the stored record
\* has the price of the one and the stock of the other
C18_Witness ==
    /\ lastReturn.op = "updateProduct"
    /\ lastReturn.status = "resolved"
    /\ lastReturn.arg.concurrent
    /\ lastReturn.arg.updates = [stock |-> 4]
    /\ Has(products, lastReturn.arg.id)
    /\ products[lastReturn.arg.id].price = 7
    /\ products[lastReturn.arg.id].stock = 4

\* C19: a loginOwner that was called before a logoutOwner returned, and whose
\* lookup of the user resolves after it, does not set the session flag.
C19_LogoutIsFinal ==
    [][\A s \in Slots :
         (LoginOwnerGet(s) /\ s \in preLogout /\ ~IsOwner(localStorage))
         => ~IsOwner(localStorage')]_vars

\* C20: addProduct leaves every product that is stored as it is, and the
\* products store holds exactly one record more after it.
C20_AddKeepsExisting ==
    [][\A s \in Slots : AddProductPut(s) =>
         /\ \A k \in DOMAIN products : Has(products', k) /\ products'[k] = products[k]
         /\ Cardinality(DOMAIN products') = Cardinality(DOMAIN products) + 1]_vars

====
